---- MODULE Spec2Model ----
(***************************************************************************)
(* Model of dash_ridership_dashboard.py: the module-level load of the      *)
(* ridership table (date parsing, count parsing, derived columns, holiday  *)
(* generation and join) followed by the two Dash callbacks update_graph    *)
(* and update_table, which are invoked any number of times with any        *)
(* filter values.                                                          *)
(*                                                                         *)
(* A data frame is a sequence of rows in table order; row i of the         *)
(* sequence carries index label i - 1.  A row is a function from column    *)
(* names to cell values.  Cell text is a sequence of one-character         *)
(* strings, so that parsing is computed and not assumed.                   *)
(***************************************************************************)
EXTENDS Integers, Sequences, FiniteSets, TLC

VARIABLES pc, data, holiday_data, error, call, result

vars == <<pc, data, holiday_data, error, call, result>>

\* ------------------------------------------------------------------ bounds

\* Largest number of rows of the source table.
MaxRows == 3

\* ------------------------------------------------------------- cell values

\* pandas' not-a-time marker of a datetime column.
NaT == [year |-> 0, month |-> 0, day |-> 0]

\* Missing value of a numeric column (the Year of a NaT row).
NaN == -1

\* Missing value of a text column (Month, Day, Holiday_Name).
NaNText == "NaN"

\* value=None of the year dropdown.
NoYear == 0

\* value=None of the month dropdown.
NoMonth == "None"

Digits == {"0", "1", "2", "3", "4", "5", "6", "7", "8", "9"}

DigitVal(c) ==
    CASE c = "0" -> 0 [] c = "1" -> 1 [] c = "2" -> 2 [] c = "3" -> 3
      [] c = "4" -> 4 [] c = "5" -> 5 [] c = "6" -> 6 [] c = "7" -> 7
      [] c = "8" -> 8 [] c = "9" -> 9

\* ---------------------------------------------------------- generic helpers

RECURSIVE SeqSum(_)
SeqSum(s) == IF s = <<>> THEN 0 ELSE Head(s) + SeqSum(Tail(s))

\* The elements of a finite set of integers in ascending order.
RECURSIVE SortedSeq(_)
SortedSeq(S) ==
    IF S = {} THEN <<>>
    ELSE LET lo == CHOOSE x \in S : \A y \in S : x <= y
         IN <<lo>> \o SortedSeq(S \ {lo})

\* ------------------------------------------------------------ text parsing

\* str.replace(',', ''): the text without its commas.
RECURSIVE str_replace_comma(_)
str_replace_comma(text) ==
    IF text = <<>> THEN <<>>
    ELSE (IF Head(text) = "," THEN <<>> ELSE <<Head(text)>>)
         \o str_replace_comma(Tail(text))

AllDigits(text) == text # <<>> /\ \A i \in 1..Len(text) : text[i] \in Digits

RECURSIVE DigitsValue(_)
DigitsValue(text) ==
    IF text = <<>> THEN 0
    ELSE 10 * DigitsValue(SubSeq(text, 1, Len(text) - 1)) + DigitVal(text[Len(text)])

\* Whether int() accepts the text: an optional sign, then one or more digits.
IntLiteral(text) ==
    /\ text # <<>>
    /\ IF Head(text) \in {"-", "+"} THEN AllDigits(Tail(text)) ELSE AllDigits(text)

\* int() of an accepted text.
IntValue(text) ==
    IF Head(text) = "-" THEN 0 - DigitsValue(Tail(text))
    ELSE IF Head(text) = "+" THEN DigitsValue(Tail(text))
    ELSE DigitsValue(text)

\* The text split at its "/" characters.
RECURSIVE SplitSlash(_)
SplitSlash(text) ==
    IF text = <<>> THEN << <<>> >>
    ELSE LET rest == SplitSlash(Tail(text))
         IN IF Head(text) = "/" THEN << <<>> >> \o rest
            ELSE << <<Head(text)>> \o Head(rest) >> \o Tail(rest)

\* ---------------------------------------------------------------- calendar

IsLeap(y) == (y % 4 = 0 /\ y % 100 # 0) \/ y % 400 = 0

DaysInMonth(y, m) ==
    IF m = 2 THEN (IF IsLeap(y) THEN 29 ELSE 28)
    ELSE IF m \in {4, 6, 9, 11} THEN 30 ELSE 31

Timestamp(y, m, d) == [year |-> y, month |-> m, day |-> d]

\* pd.to_datetime(text, errors='coerce') on month/day/year text: the date it
\* denotes, and NaT for text that denotes no calendar date.
to_datetime(text) ==
    LET parts == SplitSlash(text)
    IN IF Len(parts) = 3 /\ \A i \in 1..3 : AllDigits(parts[i])
       THEN LET m == DigitsValue(parts[1])
                d == DigitsValue(parts[2])
                y == DigitsValue(parts[3])
            IN IF m \in 1..12 /\ y >= 1 /\ d \in 1..DaysInMonth(y, m)
               THEN Timestamp(y, m, d)
               ELSE NaT
       ELSE NaT

MonthNames ==
    <<"January", "February", "March", "April", "May", "June", "July",
      "August", "September", "October", "November", "December">>

DayNames ==
    <<"Sunday", "Monday", "Tuesday", "Wednesday", "Thursday", "Friday", "Saturday">>

\* Day of the week of a date, 0 = Sunday.
Weekday(ts) ==
    LET t == <<0, 3, 2, 5, 0, 3, 5, 1, 4, 6, 2, 4>>
        y == IF ts.month < 3 THEN ts.year - 1 ELSE ts.year
    IN (y + (y \div 4) - (y \div 100) + (y \div 400) + t[ts.month] + ts.day) % 7

\* Series.dt.month_name()
month_name(ts) == IF ts = NaT THEN NaNText ELSE MonthNames[ts.month]

\* Series.dt.year
dt_year(ts) == IF ts = NaT THEN NaN ELSE ts.year

\* Series.dt.day_name()
day_name(ts) == IF ts = NaT THEN NaNText ELSE DayNames[Weekday(ts) + 1]

Pad2(n) == IF n < 10 THEN "0" \o ToString(n) ELSE ToString(n)

\* Timestamp.strftime('%Y-%m-%d')
strftime(ts) == ToString(ts.year) \o "-" \o Pad2(ts.month) \o "-" \o Pad2(ts.day)

\* ------------------------------------------------------------ source table

Row(date, bus, rail, total) ==
    [Date |-> date, Bus |-> bus, Rail |-> rail] @@ ("Grand Total" :> total)

\* Date texts of the source: a holiday, the plain day after it, a day of
\* another year that is both a holiday and a listed event, a text that is no
\* date and a text shaped like a date that names no calendar day.
Jan01_2020 == <<"1", "/", "1", "/", "2", "0", "2", "0">>
Jan02_2020 == <<"1", "/", "2", "/", "2", "0", "2", "0">>
Jul04_2021 == <<"7", "/", "4", "/", "2", "0", "2", "1">>
NoDateText == <<"n", "/", "a">>
Feb30_2020 == <<"2", "/", "3", "0", "/", "2", "0", "2", "0">>

GoodDateTexts == {Jan01_2020, Jan02_2020, Jul04_2021}

\* Rows the source table is drawn from: well-formed rows with one of two
\* ridership levels, rows with an unparseable date, a row with negative
\* counts and a row with a malformed count.
RawRows ==
    {Row(d, <<"4", "0", "0">>, <<"6", "0", "0">>, <<"1", ",", "0", "0", "0">>)
        : d \in GoodDateTexts}
    \cup {Row(d, <<"2", "0", "0">>, <<"3", "0", "0">>, <<"5", "0", "0">>)
        : d \in GoodDateTexts}
    \cup {Row(NoDateText, <<"2", "0", "0">>, <<"3", "0", "0">>, <<"5", "0", "0">>),
          Row(Feb30_2020, <<"4", "0", "0">>, <<"6", "0", "0">>, <<"1", ",", "0", "0", "0">>),
          Row(Jan01_2020, <<"-", "2", "0", "0">>, <<"3", "0", "0">>, <<"-", "5", "0", "0">>),
          Row(Jan02_2020, <<"2", "0", "0">>, <<"3", "x", "0">>, <<"5", "0", "0">>)}

\* The source tables: one to MaxRows rows, in any order, repeats allowed.
RawTables == UNION {[1..n -> RawRows] : n \in 1..MaxRows}

\* ------------------------------------------------------------------- load

CountColumns == <<"Bus", "Rail", "Grand Total">>

\* Whether astype(int) accepts every cell of the column once its commas are
\* removed.
ColumnConverts(df, column) ==
    \A i \in 1..Len(df) : IntLiteral(str_replace_comma(df[i][column]))

\* data[column] = data[column].str.replace(',', '').astype(int)
ConvertColumn(df, column) ==
    [i \in 1..Len(df) |->
        [df[i] EXCEPT ![column] = IntValue(str_replace_comma(df[i][column]))]]

\* The frame after the loop over the count columns, from column number k on:
\* the loop stops at the first column that astype(int) rejects.
RECURSIVE ConvertCounts(_, _)
ConvertCounts(df, k) ==
    IF k > Len(CountColumns) \/ ~ColumnConverts(df, CountColumns[k]) THEN df
    ELSE ConvertCounts(ConvertColumn(df, CountColumns[k]), k + 1)

\* Whether the loop over the count columns raises ValueError.
CountsRaise(df) == \E k \in 1..Len(CountColumns) : ~ColumnConverts(df, CountColumns[k])

\* Series.min() and Series.max() of the Year column: NaN cells are skipped,
\* and the result is a float as soon as the column holds a NaN.
YearValues(df) == {df[i]["Year"] : i \in 1..Len(df)} \ {NaN}
YearIsFloat(df) == \E i \in 1..Len(df) : df[i]["Year"] = NaN
YearMin(df) == CHOOSE y \in YearValues(df) : \A z \in YearValues(df) : y <= z
YearMax(df) == CHOOSE y \in YearValues(df) : \A z \in YearValues(df) : y >= z

\* range(data['Year'].min(), data['Year'].max() + 1)
HolidayYearsOffByOne(df) == SortedSeq(YearMin(df)..(YearMax(df) - 1))
HolidayYears(df) == SortedSeq(YearMin(df)..YearMax(df))

\* range() rejects a float argument with TypeError.
RangeRaises(df) == YearIsFloat(df) \/ YearValues(df) = {}

\* The holiday calendar of one year, as the holidays package lists it: the
\* fixed-date holidays New Year's Day, Independence Day and Christmas Day
\* and the floating Thanksgiving, the fourth Thursday of November.
Thanksgiving(y) ==
    LET first == 1 + ((4 - Weekday(Timestamp(y, 11, 1)) + 7) % 7)
    IN Timestamp(y, 11, first + 21)

USHolidaysOfYear(y) ==
    << [Date |-> Timestamp(y, 1, 1), Holiday_Name |-> "New Year's Day"],
       [Date |-> Timestamp(y, 7, 4), Holiday_Name |-> "Independence Day"],
       [Date |-> Thanksgiving(y), Holiday_Name |-> "Thanksgiving"],
       [Date |-> Timestamp(y, 12, 25), Holiday_Name |-> "Christmas Day"] >>

\* holidays.US(years=...) as the frame of its items, one row per holiday.
RECURSIVE us_holidays(_)
us_holidays(years) ==
    IF years = <<>> THEN <<>>
    ELSE USHolidaysOfYear(Head(years)) \o us_holidays(Tail(years))

\* pd.merge(left, right, on='Date', how='left'): every left row, in order,
\* once per right row of the same Date, and once with a missing
\* Holiday_Name when no right row has its Date.
RECURSIVE merge_left(_, _)
merge_left(left, right) ==
    IF left = <<>> THEN <<>>
    ELSE LET row == Head(left)
             hits == SelectSeq(right, LAMBDA r : r.Date = row["Date"])
             joined ==
                 IF hits = <<>> THEN << row @@ ("Holiday_Name" :> NaNText) >>
                 ELSE [k \in 1..Len(hits) |->
                          row @@ ("Holiday_Name" :> hits[k].Holiday_Name)]
         IN joined \o merge_left(Tail(left), right)

\* data['Holiday'] = data['Holiday_Name'].notna().replace({True: 'Yes', False: 'No'})
holiday_flag(df) ==
    [i \in 1..Len(df) |->
        df[i] @@ ("Holiday" :> IF df[i]["Holiday_Name"] # NaNText THEN "Yes" ELSE "No")]

\* ----------------------------------------------------------------- events

\* The static list of significant events, in list order.
events ==
    << [date |-> Timestamp(2019, 4, 3), description |-> "Cherry Blossom Festival Peak"],
       [date |-> Timestamp(2020, 3, 22), description |-> "COVID Lockdown Begins"],
       [date |-> Timestamp(2020, 11, 3), description |-> "U.S. Presidential Election"],
       [date |-> Timestamp(2021, 1, 20), description |-> "Presidential Inauguration"],
       [date |-> Timestamp(2021, 7, 4), description |-> "Independence Day"],
       [date |-> Timestamp(2022, 1, 3), description |-> "Winter Storm Impacts"],
       [date |-> Timestamp(2023, 11, 14), description |-> "Political Event"],
       [date |-> Timestamp(2024, 10, 29), description |-> "Pre-Election Event"] >>

\* ------------------------------------------------------------------ views

\* A view of a frame is the sequence of the positions of its rows in the
\* frame, in table order: boolean indexing keeps order and index labels.
WholeView(df) == [i \in 1..Len(df) |-> i]

\* view[view_column == value]
Restrict(df, view, column, value) ==
    SelectSeq(view, LAMBDA p : df[p][column] = value)

\* The cells of a column of a view, in order.
Column(df, view, column) == [k \in 1..Len(view) |-> df[view[k]][column]]

\* The index label of the row at a position of the frame.
Label(position) == position - 1

\* ----------------------------------------------------------- update_graph

\* Lines 124-130: the copy of the data restricted by the month and year
\* filters that are set.
FilteredView(df, selected_month, selected_year) ==
    LET by_month == IF selected_month # NoMonth
                    THEN Restrict(df, WholeView(df), "Month", selected_month)
                    ELSE WholeView(df)
    IN IF selected_year # NoYear
       THEN Restrict(df, by_month, "Year", selected_year)
       ELSE by_month

\* Line 172: pd.Timestamp(event["date"]) in filtered_data['Date'].values
EventInWholeData(df, view, event) ==
    \E i \in 1..Len(df) : df[i]["Date"] = event.date
EventInView(df, view, event) ==
    \E k \in 1..Len(view) : df[view[k]]["Date"] = event.date

\* max() of a sequence of numbers; Python raises ValueError on an empty one.
MaxRaises(values) == values = <<>>
py_max(values) ==
    CHOOSE v \in {values[k] : k \in 1..Len(values)} :
        \A k \in 1..Len(values) : values[k] <= v

\* (idx % 2) * 20 - 10
yshift(idx) == (idx % 2) * 20 - 10

\* The figure update_graph returns, or the exception it raises.
update_graph(df, selected_month, selected_year, selected_modes, filters) ==
    LET filtered_data == FilteredView(df, selected_month, selected_year)
        totals == Column(df, filtered_data, "Grand Total")
        holiday_rows ==
            IF "Holidays" \in filters
            THEN Restrict(df, filtered_data, "Holiday", "Yes")
            ELSE <<>>
        event_hits ==
            IF "Events" \in filters
            THEN SelectSeq([k \in 1..Len(events) |-> k],
                     LAMBDA k : EventInView(df, filtered_data, events[k]))
            ELSE <<>>
    IN IF (holiday_rows # <<>> \/ event_hits # <<>>) /\ MaxRaises(totals)
       THEN [raised |-> "ValueError"]
       ELSE [raised |-> "none",
             traces |->
                 [k \in 1..Len(selected_modes) |->
                     [name |-> selected_modes[k],
                      x |-> Column(df, filtered_data, "Date"),
                      y |-> Column(df, filtered_data, selected_modes[k]),
                      customdata |-> Column(df, filtered_data, "Day")]],
             shapes |->
                 [k \in 1..Len(holiday_rows) |->
                     [x0 |-> df[holiday_rows[k]]["Date"],
                      x1 |-> df[holiday_rows[k]]["Date"],
                      y0 |-> 0, y1 |-> py_max(totals)]]
                 \o [k \in 1..Len(event_hits) |->
                     [x0 |-> events[event_hits[k]].date,
                      x1 |-> events[event_hits[k]].date,
                      y0 |-> 0, y1 |-> py_max(totals)]],
             annotations |->
                 [k \in 1..Len(holiday_rows) |->
                     [x |-> df[holiday_rows[k]]["Date"],
                      y |-> py_max(totals) + 5000,
                      text |-> df[holiday_rows[k]]["Holiday_Name"],
                      yshift |-> yshift(Label(holiday_rows[k]))]]
                 \o [k \in 1..Len(event_hits) |->
                     [x |-> events[event_hits[k]].date,
                      y |-> py_max(totals) - 5000,
                      text |-> events[event_hits[k]].description,
                      yshift |-> yshift(event_hits[k] - 1)]]]

\* The module-level frame after a call of update_graph: the call works on
\* data.copy() and rebinds only its local name.
data_after_graph_filtering(df, selected_month, selected_year) ==
    LET view == FilteredView(df, selected_month, selected_year)
    IN [k \in 1..Len(view) |-> df[view[k]]]
data_after_update_graph(df, selected_month, selected_year) == df

\* ----------------------------------------------------------- update_table

default_columns == <<"Insight", "Date", "Day", "Ridership">>

\* Series.idxmax() and Series.idxmin() of a column of a non-empty view: the
\* position of the first row, in the order of the view, that holds the
\* largest (smallest) value.
idxmax_last(df, view, column) ==
    LET k == CHOOSE k \in 1..Len(view) :
                /\ \A j \in 1..Len(view) : df[view[j]][column] <= df[view[k]][column]
                /\ \A j \in (k + 1)..Len(view) : df[view[j]][column] < df[view[k]][column]
    IN view[k]
idxmax_first_row(df, view, column) == view[1]
idxmax(df, view, column) ==
    LET k == CHOOSE k \in 1..Len(view) :
                /\ \A j \in 1..Len(view) : df[view[j]][column] <= df[view[k]][column]
                /\ \A j \in 1..(k - 1) : df[view[j]][column] < df[view[k]][column]
    IN view[k]

idxmin(df, view, column) ==
    LET k == CHOOSE k \in 1..Len(view) :
                /\ \A j \in 1..Len(view) : df[view[j]][column] >= df[view[k]][column]
                /\ \A j \in 1..(k - 1) : df[view[j]][column] > df[view[k]][column]
    IN view[k]

\* data.groupby('Year').agg({'Grand Total': 'sum'}).reset_index(), with the
\* summed column renamed: one row per year, years ascending, rows whose
\* Year is missing left out.
groupby_year_first_only(df) ==
    LET years == SortedSeq(YearValues(df))
    IN [k \in 1..Len(years) |->
           ("Year" :> years[k]) @@
           ("Total Ridership" :>
               Column(df, Restrict(df, WholeView(df), "Year", years[k]), "Grand Total")[1])]
groupby_year_sum(df) ==
    LET years == SortedSeq(YearValues(df))
    IN [k \in 1..Len(years) |->
           ("Year" :> years[k]) @@
           ("Total Ridership" :>
               SeqSum(Column(df, Restrict(df, WholeView(df), "Year", years[k]), "Grand Total")))]

InsightRow(insight, row) ==
    [Insight |-> insight, Date |-> strftime(row["Date"]), Day |-> row["Day"],
     Ridership |-> row["Grand Total"]]

\* Line 228: data[data['Year'] == selected_year]
YearData(df, selected_year) == Restrict(df, WholeView(df), "Year", selected_year)

\* Line 245: data[(data['Year'] == selected_year) & (data['Month'] == selected_month)]
MonthDataAnyYear(df, selected_year, selected_month) ==
    Restrict(df, WholeView(df), "Month", selected_month)
MonthData(df, selected_year, selected_month) ==
    Restrict(df, YearData(df, selected_year), "Month", selected_month)

\* Lines 262-263: the fallback, reached with a month and no year.
FallbackDefaultYear(df, selected_year, selected_month) ==
    LET month_data == MonthDataAnyYear(df, selected_year, selected_month)
    IN IF month_data = <<>> THEN [raised |-> "none", data |-> <<>>, columns |-> default_columns]
       ELSE [raised |-> "none",
             data |-> << InsightRow("Busiest Day", df[idxmax(df, month_data, "Grand Total")]) >>,
             columns |-> default_columns]
Fallback(df, selected_year, selected_month) ==
    [raised |-> "none", data |-> <<>>, columns |-> default_columns]

\* The (data, columns) pair update_table returns.
update_table(df, selected_year, selected_month) ==
    IF selected_year = NoYear /\ selected_month = NoMonth
    THEN [raised |-> "none", data |-> groupby_year_sum(df),
          columns |-> <<"Year", "Total Ridership">>]
    ELSE IF selected_year # NoYear /\ selected_month = NoMonth
    THEN LET year_data == YearData(df, selected_year)
         IN IF year_data = <<>>
            THEN [raised |-> "none", data |-> <<>>, columns |-> default_columns]
            ELSE [raised |-> "none",
                  data |-> << InsightRow("Busiest Day", df[idxmax(df, year_data, "Grand Total")]),
                              InsightRow("Quietest Day", df[idxmin(df, year_data, "Grand Total")]) >>,
                  columns |-> default_columns]
    ELSE IF selected_year # NoYear /\ selected_month # NoMonth
    THEN LET month_data == MonthData(df, selected_year, selected_month)
         IN IF month_data = <<>>
            THEN [raised |-> "none", data |-> <<>>, columns |-> default_columns]
            ELSE [raised |-> "none",
                  data |-> << InsightRow("Busiest Day", df[idxmax(df, month_data, "Grand Total")]),
                              InsightRow("Quietest Day", df[idxmin(df, month_data, "Grand Total")]),
                              [Insight |-> "Monthly Total", Date |-> "N/A", Day |-> "N/A",
                               Ridership |-> SeqSum(Column(df, month_data, "Grand Total"))] >>,
                  columns |-> default_columns]
    ELSE Fallback(df, selected_year, selected_month)

\* ------------------------------------------------------- callback inputs

MonthChoices == {NoMonth, "January"}
YearChoices == {NoYear, 2020, 2021}
ModeChoices == {<<"Bus", "Rail", "Grand Total">>}
FilterChoices == SUBSET {"Holidays", "Events"}

NoCall == [fn |-> "none"]
NoResult == [raised |-> "none"]

Init ==
    /\ data \in RawTables
    /\ pc = "read"
    /\ holiday_data = <<>>
    /\ error = "none"
    /\ call = NoCall
    /\ result = NoResult

\* Line 13: the Date column parsed, unparseable text coerced to NaT.
ParseDates ==
    /\ pc = "read"
    /\ data' = [i \in 1..Len(data) |-> [data[i] EXCEPT !["Date"] = to_datetime(@)]]
    /\ pc' = "dates"
    /\ UNCHANGED <<holiday_data, error, call, result>>

\* Lines 16-17: the count columns converted; a cell that is no integer
\* raises ValueError and ends the load.
ParseCounts ==
    /\ pc = "dates"
    /\ data' = ConvertCounts(data, 1)
    /\ IF CountsRaise(data)
       THEN pc' = "aborted" /\ error' = "ValueError"
       ELSE pc' = "counts" /\ error' = error
    /\ UNCHANGED <<holiday_data, call, result>>

\* Lines 20-22: Month, Year and Day derived from the Date.
DeriveColumns ==
    /\ pc = "counts"
    /\ data' = [i \in 1..Len(data) |->
                   data[i] @@ [Month |-> month_name(data[i]["Date"]),
                               Year |-> dt_year(data[i]["Date"]),
                               Day |-> day_name(data[i]["Date"])]]
    /\ pc' = "derived"
    /\ UNCHANGED <<holiday_data, error, call, result>>

\* Lines 25-29: the holidays of the years of the data; range() raises
\* TypeError on the float Year bounds of a column holding NaN.
GenerateHolidays ==
    /\ pc = "derived"
    /\ IF RangeRaises(data)
       THEN pc' = "aborted" /\ error' = "TypeError" /\ holiday_data' = holiday_data
       ELSE pc' = "holidays" /\ error' = error
            /\ holiday_data' = us_holidays(HolidayYears(data))
    /\ UNCHANGED <<data, call, result>>

\* Lines 32-33: the left join of the holidays and the Holiday flag.
MergeHolidays ==
    /\ pc = "holidays"
    /\ data' = holiday_flag(merge_left(data, holiday_data))
    /\ pc' = "serving"
    /\ UNCHANGED <<holiday_data, error, call, result>>

\* A call of update_graph with any filter values.
UpdateGraph ==
    /\ pc = "serving"
    /\ \E m \in MonthChoices, y \in YearChoices, modes \in ModeChoices, f \in FilterChoices :
          /\ call' = [fn |-> "update_graph", month |-> m, year |-> y,
                      modes |-> modes, filters |-> f]
          /\ result' = update_graph(data, m, y, modes, f)
          /\ data' = data_after_update_graph(data, m, y)
    /\ UNCHANGED <<pc, holiday_data, error>>

\* A call of update_table with any filter values.
UpdateTable ==
    /\ pc = "serving"
    /\ \E y \in YearChoices, m \in MonthChoices :
          /\ call' = [fn |-> "update_table", month |-> m, year |-> y]
          /\ result' = update_table(data, y, m)
    /\ UNCHANGED <<pc, data, holiday_data, error>>

Next ==
    \/ ParseDates
    \/ ParseCounts
    \/ DeriveColumns
    \/ GenerateHolidays
    \/ MergeHolidays
    \/ UpdateGraph
    \/ UpdateTable

Spec == Init /\ [][Next]_vars

\* ======================================================================
\* Properties
\* ======================================================================

IsTableCall == pc = "serving" /\ call.fn = "update_table"
IsGraphCall == pc = "serving" /\ call.fn = "update_graph"

\* The positions of the records a filter combination selects, scanned
\* record by record.
MatchingRows(y, m) ==
    {i \in 1..Len(data) :
        /\ (y = NoYear \/ data[i]["Year"] = y)
        /\ (m = NoMonth \/ data[i]["Month"] = m)}

\* The sum of Grand Total over a set of record positions.
RECURSIVE TotalOver(_)
TotalOver(I) ==
    IF I = {} THEN 0
    ELSE LET i == CHOOSE i \in I : TRUE
         IN data[i]["Grand Total"] + TotalOver(I \ {i})

TotalsOf(I) == {data[i]["Grand Total"] : i \in I}
LargestOf(I) == CHOOSE v \in TotalsOf(I) : \A w \in TotalsOf(I) : w <= v
SmallestOf(I) == CHOOSE v \in TotalsOf(I) : \A w \in TotalsOf(I) : w >= v

\* Whether a summary row reports the date, day and total of record i.
Reports(row, i) ==
    /\ row.Date = strftime(data[i]["Date"])
    /\ row.Day = data[i]["Day"]
    /\ row.Ridership = data[i]["Grand Total"]

DateKey(ts) == ts.year * 10000 + ts.month * 100 + ts.day

\* C1: with no year and no month selected, update_table returns exactly one
\* row per distinct year of the records, years ascending, each row's total
\* the sum of Grand Total over that year's records, so that the totals add
\* up to the sum of Grand Total over all records with a valid year.
C1_YearlyTotals ==
    (IsTableCall /\ call.year = NoYear /\ call.month = NoMonth) =>
        LET rows == result.data
            valid == {i \in 1..Len(data) : data[i]["Year"] # NaN}
        IN /\ result.raised = "none"
           /\ Len(rows) = Cardinality({data[i]["Year"] : i \in valid})
           /\ \A k \in 1..Len(rows) :
                 /\ \E i \in valid : data[i]["Year"] = rows[k]["Year"]
                 /\ rows[k]["Total Ridership"] =
                        TotalOver({i \in valid : data[i]["Year"] = rows[k]["Year"]})
           /\ \A k \in 1..(Len(rows) - 1) : rows[k]["Year"] < rows[k + 1]["Year"]
           /\ SeqSum([k \in 1..Len(rows) |-> rows[k]["Total Ridership"]]) = TotalOver(valid)

C1_Witness ==
    /\ IsTableCall /\ call.year = NoYear /\ call.month = NoMonth
    /\ Len(result.data) = 2
    /\ Len(data) = 3
    /\ result.data[1]["Total Ridership"] # result.data[2]["Total Ridership"]

\* C2: with a year selected and no month, on a record set holding a record
\* of that year, update_table returns exactly the rows "Busiest Day" and
\* "Quietest Day", whose Ridership is the largest and the smallest Grand
\* Total over the records of that year and whose Date and Day are those of
\* a record of that year with that total.
C2_YearExtremes ==
    (IsTableCall /\ call.year # NoYear /\ call.month = NoMonth
        /\ MatchingRows(call.year, NoMonth) # {}) =>
        LET rows == result.data
            I == MatchingRows(call.year, NoMonth)
        IN /\ result.raised = "none"
           /\ Len(rows) = 2
           /\ rows[1].Insight = "Busiest Day"
           /\ rows[2].Insight = "Quietest Day"
           /\ rows[1].Ridership = LargestOf(I)
           /\ rows[2].Ridership = SmallestOf(I)
           /\ \E i \in I : Reports(rows[1], i)
           /\ \E i \in I : Reports(rows[2], i)

C2_Witness ==
    /\ IsTableCall /\ call.year # NoYear /\ call.month = NoMonth
    /\ Len(result.data) = 2
    /\ result.data[1].Ridership > result.data[2].Ridership
    /\ data[1]["Year"] = call.year
    /\ data[1]["Grand Total"] < result.data[1].Ridership
    /\ \E i \in 1..Len(data) : data[i]["Year"] # call.year

\* C3: with a year and a month selected, update_table returns no row when
\* no record matches both, and otherwise exactly the rows "Busiest Day",
\* "Quietest Day" and "Monthly Total", the last with the sum of Grand Total
\* over exactly the records matching both filters and with Date and Day
\* "N/A".
C3_MonthlyTotal ==
    (IsTableCall /\ call.year # NoYear /\ call.month # NoMonth) =>
        LET rows == result.data
            I == MatchingRows(call.year, call.month)
        IN /\ result.raised = "none"
           /\ I = {} => rows = <<>>
           /\ I # {} =>
                 /\ Len(rows) = 3
                 /\ rows[1].Insight = "Busiest Day"
                 /\ rows[2].Insight = "Quietest Day"
                 /\ rows[3].Insight = "Monthly Total"
                 /\ rows[3].Ridership = TotalOver(I)
                 /\ rows[3].Date = "N/A"
                 /\ rows[3].Day = "N/A"

C3_Witness ==
    /\ IsTableCall /\ call.year # NoYear /\ call.month # NoMonth
    /\ Len(result.data) = 3
    /\ Cardinality(MatchingRows(call.year, call.month)) = 2
    /\ \E i \in 1..Len(data) : data[i]["Year"] # call.year
    /\ result.data[3].Ridership > result.data[1].Ridership

\* C4 as claimed: a summary query with a month and no year fails with
\* InvalidFilter.
C4_MonthOnlyFailsInvalidFilter ==
    (IsTableCall /\ call.year = NoYear /\ call.month # NoMonth) =>
        result.raised = "InvalidFilter"

\* C4: a summary query with a month and no year raises nothing and returns
\* the empty result with the default columns, the result of a query that
\* matches no record; it is never answered with a summary for some year.
C4_MonthOnlyReturnsEmpty ==
    (IsTableCall /\ call.year = NoYear /\ call.month # NoMonth) =>
        /\ result.raised = "none"
        /\ result.data = <<>>
        /\ result.columns = <<"Insight", "Date", "Day", "Ridership">>

C4_Witness ==
    /\ IsTableCall /\ call.year = NoYear /\ call.month # NoMonth
    /\ MatchingRows(NoYear, call.month) # {}
    /\ result.data = <<>>

\* The positions of the records of I that hold the total v.
Holding(I, v) == {i \in I : data[i]["Grand Total"] = v}

EarliestOf(I) == CHOOSE i \in I : \A j \in I : DateKey(data[i]["Date"]) <= DateKey(data[j]["Date"])
FirstOf(I) == CHOOSE i \in I : \A j \in I : i <= j

\* C5 as claimed: among the records of the restricted set that tie for the
\* largest or the smallest Grand Total, the row reports the one with the
\* earliest date, whatever the order of the table.
C5_TieReportsEarliestDate ==
    (IsTableCall /\ call.year # NoYear /\ MatchingRows(call.year, call.month) # {}) =>
        LET I == MatchingRows(call.year, call.month)
        IN /\ result.data[1].Date = strftime(data[EarliestOf(Holding(I, LargestOf(I)))]["Date"])
           /\ result.data[2].Date = strftime(data[EarliestOf(Holding(I, SmallestOf(I)))]["Date"])

\* C5: among the records of the restricted set that tie for the largest or
\* the smallest Grand Total, the row reports the one that comes first in
\* the order of the table.
C5_TieReportsFirstInTableOrder ==
    (IsTableCall /\ call.year # NoYear /\ MatchingRows(call.year, call.month) # {}) =>
        LET I == MatchingRows(call.year, call.month)
        IN /\ Reports(result.data[1], FirstOf(Holding(I, LargestOf(I))))
           /\ Reports(result.data[2], FirstOf(Holding(I, SmallestOf(I))))

C5_Witness ==
    /\ IsTableCall /\ call.year # NoYear
    /\ MatchingRows(call.year, call.month) # {}
    /\ LET I == MatchingRows(call.year, call.month)
           T == Holding(I, LargestOf(I))
       IN /\ Cardinality(T) >= 2
          /\ Cardinality(I) > Cardinality(T)
          /\ data[FirstOf(T)]["Date"] # data[EarliestOf(T)]["Date"]
          /\ Reports(result.data[1], FirstOf(T))

\* C6 as claimed: a table holding rows with unparseable date text never
\* aborts the load in the holiday generation over the year range.
C6_BadDatesNeverAbortLoad ==
    ~(/\ pc = "aborted"
      /\ error = "TypeError"
      /\ \E i \in 1..Len(data) : data[i]["Date"] = NaT)

\* C7: once the load has finished, no call of update_graph or update_table
\* changes the module-level record set.
C7_BaseRecordSetNeverChanges == [][pc = "serving" => data' = data]_vars

C7_Witness ==
    /\ IsGraphCall
    /\ result.raised = "none"
    /\ Len(result.traces[1].x) \in 1..(Len(data) - 1)

\* The dates of the holidays of every year from the first to the last year
\* of a frame.
HolidayDatesOfSpan(df) ==
    LET ys == {df[i]["Year"] : i \in 1..Len(df)}
        lo == CHOOSE y \in ys : \A z \in ys : y <= z
        hi == CHOOSE y \in ys : \A z \in ys : y >= z
    IN {USHolidaysOfYear(y)[k].Date : y \in lo..hi, k \in 1..4}

\* C8: the holiday enrichment keeps every record, in order and with its
\* values; after it a record has a holiday name exactly when its date is
\* the date of a holiday of a year from the first to the last year of the
\* data, and its Holiday flag is 'Yes' exactly when it has a holiday name.
C8_HolidayEnrichment ==
    [][pc = "holidays" =>
          /\ Len(data') = Len(data)
          /\ \A i \in 1..Len(data) :
                /\ \A c \in DOMAIN data[i] : data'[i][c] = data[i][c]
                /\ (data'[i]["Holiday_Name"] # NaNText)
                      <=> (data[i]["Date"] \in HolidayDatesOfSpan(data))
                /\ (data'[i]["Holiday"] = "Yes") <=> (data'[i]["Holiday_Name"] # NaNText)
                /\ data'[i]["Holiday"] \in {"Yes", "No"}]_vars

C8_Witness ==
    /\ pc = "serving"
    /\ call = NoCall
    /\ Len(data) = 3
    /\ data[1]["Holiday"] = "No"
    /\ data[2]["Holiday"] = "Yes" /\ data[2]["Year"] = 2020
    /\ data[3]["Holiday_Name"] = "Independence Day" /\ data[3]["Year"] = 2021

\* C9 as claimed: no record ever carries a negative count.
C9_NoNegativeCount ==
    (pc \in {"counts", "derived", "holidays", "serving"}) =>
        \A i \in 1..Len(data) : \A k \in 1..Len(CountColumns) :
            data[i][CountColumns[k]] >= 0

\* C10: update_graph returns a figure for every filter combination, and
\* every marker of the figure stands on the date of a record of the
\* filtered view, so that the largest Grand Total is taken of a non-empty
\* view only.
C10_MarkersOnlyOnViewDates ==
    IsGraphCall =>
        LET I == MatchingRows(call.year, call.month)
        IN /\ result.raised = "none"
           /\ \A k \in 1..Len(result.shapes) :
                 /\ I # {}
                 /\ \E i \in I : data[i]["Date"] = result.shapes[k].x0
                 /\ result.shapes[k].y1 = LargestOf(I)

C10_Witness ==
    /\ IsGraphCall
    /\ call.filters = {"Holidays", "Events"}
    /\ MatchingRows(call.year, call.month) = {}
    /\ \E i \in 1..Len(data) : data[i]["Holiday"] = "Yes"
    /\ \E i \in 1..Len(data) : \E k \in 1..Len(events) : data[i]["Date"] = events[k].date
    /\ result.raised = "none"
    /\ result.shapes = <<>>

====
